---- MODULE Spec2Model ----
(***************************************************************************)
(* Model of the useFishNet hook (src/src/hooks/useFishNet.ts): model       *)
(* loading, the analyzeFish call with its await point and its two catch    *)
(* blocks, and the post-processing of the two model output vectors.        *)
(*                                                                         *)
(* Numbers are fixed-point decimals with four fractional digits: the       *)
(* integer n stands for n / 10000, so 0.05 is 500 and 1.0 is ONE.  All     *)
(* input scores are multiples of 0.01, for which every product the code    *)
(* computes is exact in this representation.  IEEE rounding of the         *)
(* JavaScript doubles is not modelled.                                     *)
(***************************************************************************)
EXTENDS Integers, Sequences, FiniteSets, TLC

VARIABLES
    mounted,        \* isMounted of the effect closure
    initPc,         \* position of initSystems
    modelsRef,      \* modelsRef.current
    isModelLoading, \* useState(true)
    modelError,     \* useState(null)
    fishCount,      \* useState(0)
    pc,             \* position of the analyzeFish call
    spData,         \* what species.predict(...).dataSync() yields for the image
    dzData,         \* what disease.predict(...).dataSync() yields for the image
    rnd,            \* what Math.random() yields in the call
    threw,          \* the step of the call that threw, or "none"
    settled,        \* how the promise returned by analyzeFish settled
    result,         \* the value the promise resolved to
    capturedImage,  \* CameraCapture: useState(null)
    isLoading,      \* CameraCapture: useState(false)
    videoRef,       \* CameraCapture: videoRef.current is attached
    srcObject,      \* CameraCapture: videoRef.current.srcObject, 0 for none
    onClick,        \* CameraCapture: the handler rendered on the shutter button
    pickerOpen,     \* CameraCapture: the file chooser of the hidden input is open
    pendingCameras, \* CameraCapture: startCamera calls waiting for getUserMedia
    pendingReaders, \* CameraCapture: FileReader loads not yet delivered
    streams         \* CameraCapture: the state of each MediaStream's tracks

vars == <<mounted, initPc, modelsRef, isModelLoading, modelError, fishCount,
          pc, spData, dzData, rnd, threw, settled, result,
          capturedImage, isLoading, videoRef, srcObject, onClick, pickerOpen,
          pendingCameras, pendingReaders, streams>>

cameraVars == <<capturedImage, isLoading, videoRef, srcObject, onClick, pickerOpen,
                pendingCameras, pendingReaders, streams>>

fishNetVars == <<mounted, initPc, modelsRef, isModelLoading, modelError, fishCount,
                 pc, spData, dzData, rnd, threw, settled, result>>

hookVars == <<mounted, initPc, modelsRef, isModelLoading, modelError>>

(***************************************************************************)
(* Fixed-point arithmetic                                                  *)
(***************************************************************************)
ONE == 10000

Times(a, b) == (a * b) \div ONE

Min(a, b) == IF a < b THEN a ELSE b

Max(a, b) == IF a > b THEN a ELSE b

(***************************************************************************)
(* Constants of the module                                                 *)
(***************************************************************************)
SPECIES_LABELS ==
    << "catfish", "catla", "common_carp", "crab", "grass_carp", "mackerel",
       "mrigal", "pink_perch", "prawn", "red_mullet", "rohu", "sea_bass",
       "sea_bream", "silver_carp", "sprat", "tilapia", "trout",
       "wild_fish_background" >>

DISPLAY_NAMES ==
    [l \in {"sprat", "catla", "rohu", "prawn", "wild_fish_background"} |->
        CASE l = "sprat" -> "Sardine (Mathi)"
          [] l = "catla" -> "Catla (Indian Carp)"
          [] l = "rohu" -> "Rohu (Rui)"
          [] l = "prawn" -> "Prawn / Shrimp"
          [] l = "wild_fish_background" -> "Unknown / Background"]

FALLBACK_RESULT ==
    [species |-> [name |-> "rohu", confidence |-> 885000],
     freshness |-> [score |-> 9200, label |-> "Fresh"],
     disease |-> [name |-> "healthy", hasDisease |-> FALSE, confidence |-> 942000],
     boundingBox |-> [yMin |-> 0, xMin |-> 0, yMax |-> ONE, xMax |-> ONE]]

bestBox == <<0, 0, ONE, ONE>>

HARD_THRESH == 6500

SOFT_THRESH == 5500

(***************************************************************************)
(* JavaScript values                                                       *)
(***************************************************************************)
\* the value of an out-of-range array read
Undefined == [undefined |-> TRUE]

\* the null the call resolves to when a model is missing
Null == [null |-> TRUE]

\* the completion of a block that threw
Thrown == [thrown |-> TRUE]

\* array[i] for a 0-based i
At(arr, i) == IF i + 1 \in DOMAIN arr THEN arr[i + 1] ELSE Undefined

\* array[i] ?? 0
AtOrZero(arr, i) == IF i + 1 \in DOMAIN arr THEN arr[i + 1] ELSE 0

\* SPECIES_LABELS[i]; the string "undefined" stands for the undefined label
LabelAt(i) == IF i + 1 \in DOMAIN SPECIES_LABELS THEN SPECIES_LABELS[i + 1] ELSE "undefined"

\* DISPLAY_NAMES[label] || label
DisplayName(label) == IF label \in DOMAIN DISPLAY_NAMES THEN DISPLAY_NAMES[label] ELSE label

(***************************************************************************)
(* Array.prototype.sort((a, b) => b.score - a.score): stable, descending   *)
(***************************************************************************)
RECURSIVE InsertDesc(_, _)
InsertDesc(s, e) ==
    IF s = <<>> THEN <<e>>
    ELSE IF Head(s).score >= e.score THEN <<Head(s)>> \o InsertDesc(Tail(s), e)
    ELSE <<e>> \o s

RECURSIVE SortFrom(_, _)
SortFrom(s, acc) ==
    IF s = <<>> THEN acc ELSE SortFrom(Tail(s), InsertDesc(acc, Head(s)))

SortDesc(s) == SortFrom(s, <<>>)


(***************************************************************************)
(* analyzeFish, step 3: species logic                                      *)
(***************************************************************************)
\* Array.from(spData).map((p, i) => ({index: i, label: SPECIES_LABELS[i], score: p}))
Predictions(data) ==
    [i \in 1..Len(data) |-> [index |-> i - 1, label |-> LabelAt(i - 1), score |-> data[i]]]

\* BackgroundSwap with the second entry's score read before the label test
BackgroundSwap_EagerSecond(predictions) ==
    LET first == At(predictions, 0)
        second == At(predictions, 1)
    IN  IF first = Undefined \/ second = Undefined THEN Thrown
        ELSE IF second.score > 500 /\ first.label = "wild_fish_background"
             THEN second
             ELSE first

\* BackgroundSwap with >= 0.05 in place of > 0.05
BackgroundSwap_Inclusive(predictions) ==
    LET first == At(predictions, 0)
        second == At(predictions, 1)
    IN  IF first = Undefined THEN Thrown
        ELSE IF first.label = "wild_fish_background"
             THEN IF second = Undefined THEN Thrown
                  ELSE IF second.score >= 500 THEN second ELSE first
             ELSE first

\* let finalChoice = predictions[0]; swap "Background" if unsure.
\* Reading .label or .score of an undefined entry throws a TypeError.
BackgroundSwap(predictions) ==
    LET first == At(predictions, 0)
        second == At(predictions, 1)
    IN  IF first = Undefined THEN Thrown
        ELSE IF first.label = "wild_fish_background"
             THEN IF second = Undefined THEN Thrown
                  ELSE IF second.score > 500 THEN second ELSE first
             ELSE first

IsCarp(p) == p.label \in {"catla", "rohu"}

\* SeaBassSwap with <= 0.5 in place of < 0.5
SeaBassSwap_Inclusive(finalChoice, predictions) ==
    IF finalChoice.label = "sea_bass" /\ finalChoice.score <= 5000
    THEN LET carp == At(SelectSeq(predictions, IsCarp), 0)
         IN  IF carp # Undefined /\ carp.score > 500 THEN carp ELSE finalChoice
    ELSE finalChoice

IsCatla(p) == p.label = "catla"

\* SeaBassSwap that looks for the carps in label order, not in score order
SeaBassSwap_FirstCarp(finalChoice, predictions) ==
    IF finalChoice.label = "sea_bass" /\ finalChoice.score < 5000
    THEN LET carp == IF At(SelectSeq(predictions, IsCatla), 0) # Undefined
                     THEN At(SelectSeq(predictions, IsCatla), 0)
                     ELSE At(SelectSeq(predictions, IsCarp), 0)
         IN  IF carp # Undefined /\ carp.score > 500 THEN carp ELSE finalChoice
    ELSE finalChoice

\* swap "Sea Bass" for carps if unsure
SeaBassSwap(finalChoice, predictions) ==
    IF finalChoice.label = "sea_bass" /\ finalChoice.score < 5000
    THEN LET carp == At(SelectSeq(predictions, IsCarp), 0)
         IN  IF carp # Undefined /\ carp.score > 500 THEN carp ELSE finalChoice
    ELSE finalChoice

\* HumbleScore with <= 0.8 in place of < 0.8
HumbleScore_Inclusive(score) ==
    IF score <= 8000 THEN 8200 + Times(score, 1000)
    ELSE IF score > 9500 THEN 9300
    ELSE score

\* humble score
HumbleScore(score) ==
    IF score < 8000 THEN 8200 + Times(score, 1000)
    ELSE IF score > 9500 THEN 9300
    ELSE score

(***************************************************************************)
(* analyzeFish, step 4: disease logic                                      *)
(***************************************************************************)
RAW_DISEASE(data) ==
    << [key |-> "black_gill_disease", label |-> "Black Gill", score |-> AtOrZero(data, 0)],
       [key |-> "healthy", label |-> "Healthy", score |-> AtOrZero(data, 1)],
       [key |-> "white_spot_virus", label |-> "White Spot", score |-> AtOrZero(data, 2)] >>

\* IsSuspicious with > SOFT_THRESH in place of >= SOFT_THRESH
IsSuspicious_Strict(d) == d.key # "healthy" /\ d.score > SOFT_THRESH

IsSuspicious(d) == d.key # "healthy" /\ d.score >= SOFT_THRESH

IsHealthy(d) == d.key = "healthy"

\* DiseaseLogic with > HARD_THRESH in place of >= HARD_THRESH
DiseaseLogic_StrictHard(data) ==
    LET raw == RAW_DISEASE(data)
        sorted == SortDesc(raw)
        top == sorted[1]
    IN  IF top.key # "healthy" /\ top.score > HARD_THRESH
        THEN [isDiseased |-> TRUE, dName |-> top.label \o " Risk", diseaseConf |-> top.score]
        ELSE LET suspiciousDisease == At(SortDesc(SelectSeq(raw, IsSuspicious)), 0)
                 healthy == At(SelectSeq(raw, IsHealthy), 0)
             IN  IF suspiciousDisease # Undefined
                 THEN [isDiseased |-> TRUE,
                       dName |-> suspiciousDisease.label \o " (Borderline)",
                       diseaseConf |-> suspiciousDisease.score]
                 ELSE [isDiseased |-> FALSE,
                       dName |-> "Healthy",
                       diseaseConf |-> IF healthy # Undefined THEN healthy.score ELSE top.score]

\* DiseaseLogic that keeps diseaseConf = top.score on the healthy path
DiseaseLogic_TopAsHealthy(data) ==
    LET raw == RAW_DISEASE(data)
        sorted == SortDesc(raw)
        top == sorted[1]
    IN  IF top.key # "healthy" /\ top.score >= HARD_THRESH
        THEN [isDiseased |-> TRUE, dName |-> top.label \o " Risk", diseaseConf |-> top.score]
        ELSE LET suspiciousDisease == At(SortDesc(SelectSeq(raw, IsSuspicious)), 0)
             IN  IF suspiciousDisease # Undefined
                 THEN [isDiseased |-> TRUE,
                       dName |-> suspiciousDisease.label \o " (Borderline)",
                       diseaseConf |-> suspiciousDisease.score]
                 ELSE [isDiseased |-> FALSE,
                       dName |-> "Healthy",
                       diseaseConf |-> top.score]

DiseaseLogic(data) ==
    LET raw == RAW_DISEASE(data)
        sorted == SortDesc(raw)
        top == sorted[1]
    IN  IF top.key # "healthy" /\ top.score >= HARD_THRESH
        THEN [isDiseased |-> TRUE, dName |-> top.label \o " Risk", diseaseConf |-> top.score]
        ELSE LET suspiciousDisease == At(SortDesc(SelectSeq(raw, IsSuspicious)), 0)
                 healthy == At(SelectSeq(raw, IsHealthy), 0)
             IN  IF suspiciousDisease # Undefined
                 THEN [isDiseased |-> TRUE,
                       dName |-> suspiciousDisease.label \o " (Borderline)",
                       diseaseConf |-> suspiciousDisease.score]
                 ELSE [isDiseased |-> FALSE,
                       dName |-> "Healthy",
                       diseaseConf |-> IF healthy # Undefined THEN healthy.score ELSE top.score]

(***************************************************************************)
(* analyzeFish, step 5: freshness                                          *)
(***************************************************************************)
\* Freshness without the upper clamp of diseaseConf
Freshness_NoUpperClamp(isDiseased, diseaseConf, displayScore, random) ==
    IF isDiseased
    THEN LET clamped == Max(diseaseConf, 5500)
             freshScore == 4500 - Times(clamped - 5500, 6000)
         IN  [score |-> freshScore,
              label |-> IF freshScore < 4000 THEN "Stale" ELSE "Stale"]
    ELSE LET base == Min(Max(displayScore, 8000), 9700)
             freshScore == base - 300 + Times(random, 400)
         IN  [score |-> freshScore,
              label |-> IF freshScore < 7500 THEN "Stale" ELSE "Fresh"]

\* Freshness with the label test of the earlier revision (Fresh only above 0.80)
Freshness_OldThreshold(isDiseased, diseaseConf, displayScore, random) ==
    IF isDiseased
    THEN LET clamped == Min(Max(diseaseConf, 5500), ONE)
             freshScore == 4500 - Times(clamped - 5500, 6000)
         IN  [score |-> freshScore,
              label |-> IF freshScore < 4000 THEN "Stale" ELSE "Stale"]
    ELSE LET base == Min(Max(displayScore, 8000), 9700)
             freshScore == base - 300 + Times(random, 400)
         IN  [score |-> freshScore,
              label |-> IF freshScore > 8000 THEN "Fresh" ELSE "Stale"]

Freshness(isDiseased, diseaseConf, displayScore, random) ==
    IF isDiseased
    THEN LET clamped == Min(Max(diseaseConf, 5500), ONE)
             freshScore == 4500 - Times(clamped - 5500, 6000)
         IN  [score |-> freshScore,
              label |-> IF freshScore < 4000 THEN "Stale" ELSE "Stale"]
    ELSE LET base == Min(Max(displayScore, 8000), 9700)
             freshScore == base - 300 + Times(random, 400)
         IN  [score |-> freshScore,
              label |-> IF freshScore < 7500 THEN "Stale" ELSE "Fresh"]

(***************************************************************************)
(* analyzeFish, steps 3 to 5 and the returned record; Thrown when a step   *)
(* throws                                                                  *)
(***************************************************************************)
PostProcess(species, disease, random) ==
    LET predictions == SortDesc(Predictions(species))
        candidate == BackgroundSwap(predictions)
    IN  IF candidate = Thrown THEN Thrown
        ELSE LET finalChoice == SeaBassSwap(candidate, predictions)
                 displayScore == HumbleScore(finalChoice.score)
                 d == DiseaseLogic(disease)
                 f == Freshness(d.isDiseased, d.diseaseConf, displayScore, random)
             IN  [species |-> [name |-> DisplayName(finalChoice.label),
                               confidence |-> displayScore * 100],
                  freshness |-> [score |-> f.score, label |-> f.label],
                  disease |-> [name |-> d.dName,
                               hasDisease |-> d.isDiseased,
                               confidence |-> d.diseaseConf * 100],
                  boundingBox |-> [yMin |-> bestBox[1], xMin |-> bestBox[2],
                                   yMax |-> bestBox[3], xMax |-> bestBox[4]]]

(***************************************************************************)
(* analyzeFish: the try / catch structure                                  *)
(***************************************************************************)
\* steps of the outer try that run before the await
Seg1Steps == {"fromPixels", "normalize", "cropAndResize"}

\* the awaited data() and the steps that run after it
Seg2Steps == {"data", "tensor", "dispose", "speciesPredict", "speciesDataSync",
              "diseasePredict", "diseaseDataSync"}

\* the catch clause that encloses a step
CatchOf(step) ==
    IF step \in {"speciesPredict", "speciesDataSync", "diseasePredict",
                 "diseaseDataSync", "postprocess"}
    THEN "inner"
    ELSE "outer"

\* Caught with the awaited data() left outside the try
Caught_AwaitOutsideTry(step) ==
    IF step = "data"
    THEN [settled |-> "rejected", value |-> Thrown]
    ELSE [settled |-> "resolved", value |-> FALLBACK_RESULT]

\* how the promise settles when a step throws: both catch clauses return
\* the fallback record (the inner one a shallow copy of it)
Caught(step) ==
    IF CatchOf(step) = "inner"
    THEN [settled |-> "resolved", value |-> FALLBACK_RESULT]
    ELSE [settled |-> "resolved", value |-> FALLBACK_RESULT]

Pending == [pending |-> TRUE]

NoModels == [species |-> "null", disease |-> "null"]

(***************************************************************************)
(* Inputs                                                                  *)
(***************************************************************************)
MaxExtra == 1

SpeciesVector(catla, rohu, seaBass, background, i, v) ==
    [k \in 1..18 |->
        IF k = i THEN v
        ELSE IF k = 2 THEN catla
        ELSE IF k = 11 THEN rohu
        ELSE IF k = 12 THEN seaBass
        ELSE IF k = 18 THEN background
        ELSE 0]

CarpScores == {0, 500, 600, 3000}

SeaBassScores == {0, 600, 4000, 5000}

BackgroundScores == {0, 500, 4500, 9000}

HotScores == {500, 600, 4500, 5000, 8000, 8500, 9500, 9900}

SpeciesVectors ==
    {SpeciesVector(a, b, c, d, i, v) :
        a \in CarpScores, b \in CarpScores, c \in SeaBassScores,
        d \in BackgroundScores, i \in 1..18, v \in HotScores}

DiseaseScores ==
    {0, 1000, 2000, 5400, 5500, 5800, 6000, 6400, 6500, 7000, 9000, 10000, 11000}

DiseaseVectors == [1..3 -> DiseaseScores]

Randoms == {0, 5000, 9999}

\* v cut or padded with x to length n
Resize(v, n, x) == [k \in 1..n |-> IF k <= Len(v) THEN v[k] ELSE x]

BaseSpecies ==
    {SpeciesVector(0, 0, 0, 0, 11, 9000),
     SpeciesVector(600, 0, 4000, 0, 1, 3000),
     SpeciesVector(0, 600, 0, 9000, 3, 500),
     SpeciesVector(0, 0, 0, 500, 1, 9000)}

BaseDisease == {<<1000, 9000, 0>>, <<1000, 2000, 7000>>, <<1000, 6000, 5800>>}

AnyLengthSpecies ==
    {Resize(v, n, x) : v \in BaseSpecies, n \in 0..(18 + MaxExtra), x \in {0, 9900}}

AnyLengthDisease == UNION {[1..n -> {2000, 7000}] : n \in 0..(3 + MaxExtra)}

\* the outputs the two models produce in the hook specification
HookSpecies == {v \in AnyLengthSpecies : Len(v) \in {0, 18}}

HookDisease == BaseDisease

HookRandoms == {0, 9999}

\* the inputs of the post-processing specification
PostInputs ==
    (SpeciesVectors \X {<<1000, 9000, 0>>} \X {0})
    \cup ({v \in BaseSpecies : v[18] = 0} \X DiseaseVectors \X Randoms)
    \cup (AnyLengthSpecies \X AnyLengthDisease \X {0})

(***************************************************************************)
(* The CameraCapture component (src/unnamed/part_000)                      *)
(***************************************************************************)
MaxStreams == 2

MaxReaders == 1

\* the component after its first render: the video element is attached,
\* the shutter button was rendered while videoRef.current was still null
InitCamera ==
    /\ capturedImage = "null"
    /\ isLoading = FALSE
    /\ videoRef = TRUE
    /\ srcObject = 0
    /\ onClick = "startCamera"
    /\ pickerOpen = FALSE
    /\ pendingCameras = 0
    /\ pendingReaders = 0
    /\ streams = [id \in 1..MaxStreams |-> "none"]

\* The file chooser is modal: while it is open the user reaches no button,
\* but promises and timers still complete.

\* the state updates of a handler and the render they cause: the shutter
\* button gets onClick = videoRef.current ? capturePhoto : startCamera, the
\* video element exists only while capturedImage is null, and a video
\* element that is unmounted loses its srcObject
Render(image, loading, source) ==
    /\ capturedImage' = image
    /\ isLoading' = loading
    /\ IF image # capturedImage \/ loading # isLoading
       THEN /\ onClick' = IF videoRef THEN "capturePhoto" ELSE "startCamera"
            /\ videoRef' = (image = "null")
       ELSE UNCHANGED <<onClick, videoRef>>
    /\ srcObject' = IF image = "null" /\ capturedImage = "null" THEN source ELSE 0

\* the streams getUserMedia has handed out so far
Obtained == {id \in 1..MaxStreams : streams[id] # "none"}

\* stream?.getTracks().forEach(track => track.stop())
StopTracks(source) ==
    [id \in 1..MaxStreams |-> IF id = source /\ streams[id] = "live" THEN "stopped" ELSE streams[id]]

\* startCamera up to its await
StartCamera ==
    /\ capturedImage = "null"
    /\ ~isLoading
    /\ onClick = "startCamera"
    /\ ~pickerOpen
    /\ Cardinality(Obtained) + pendingCameras < MaxStreams
    /\ pendingCameras' = pendingCameras + 1
    /\ Render(capturedImage, TRUE, srcObject)
    /\ UNCHANGED <<pickerOpen, pendingReaders, streams>>
    /\ UNCHANGED fishNetVars

\* getUserMedia resolves: startCamera from its await to its end
CameraGranted ==
    /\ pendingCameras > 0
    /\ LET stream == Cardinality(Obtained) + 1
       IN  /\ streams' = [streams EXCEPT ![stream] = "live"]
           /\ Render(capturedImage, FALSE, IF videoRef THEN stream ELSE srcObject)
    /\ pendingCameras' = pendingCameras - 1
    /\ UNCHANGED <<pickerOpen, pendingReaders>>
    /\ UNCHANGED fishNetVars

\* getUserMedia rejects: the catch clicks the file input, finally clears isLoading
CameraDenied ==
    /\ pendingCameras > 0
    /\ pendingCameras' = pendingCameras - 1
    /\ pickerOpen' = TRUE
    /\ Render(capturedImage, FALSE, srcObject)
    /\ UNCHANGED <<pendingReaders, streams>>
    /\ UNCHANGED fishNetVars

\* capturePhoto
CapturePhoto ==
    /\ capturedImage = "null"
    /\ ~isLoading
    /\ onClick = "capturePhoto"
    /\ ~pickerOpen
    /\ IF videoRef
       THEN /\ streams' = StopTracks(srcObject)
            /\ Render("photo", isLoading, srcObject)
       ELSE UNCHANGED <<capturedImage, isLoading, videoRef, srcObject, onClick, streams>>
    /\ UNCHANGED <<pickerOpen, pendingCameras, pendingReaders>>
    /\ UNCHANGED fishNetVars

\* the gallery button: fileInputRef.current?.click()
OpenPicker ==
    /\ capturedImage = "null"
    /\ ~pickerOpen
    /\ pickerOpen' = TRUE
    /\ UNCHANGED <<capturedImage, isLoading, videoRef, srcObject, onClick,
                   pendingCameras, pendingReaders, streams>>
    /\ UNCHANGED fishNetVars

\* handleFileSelect for the file the user picked (or none)
HandleFileSelect(isImage) ==
    /\ pickerOpen
    /\ pickerOpen' = FALSE
    /\ IF isImage
       THEN /\ pendingReaders < MaxReaders
            /\ pendingReaders' = pendingReaders + 1
            /\ Render(capturedImage, TRUE, srcObject)
       ELSE UNCHANGED <<capturedImage, isLoading, videoRef, srcObject, onClick, pendingReaders>>
    /\ UNCHANGED <<pendingCameras, streams>>
    /\ UNCHANGED fishNetVars

\* reader.onload, after its 500 ms delay
ReaderLoaded ==
    /\ pendingReaders > 0
    /\ pendingReaders' = pendingReaders - 1
    /\ Render("file", FALSE, srcObject)
    /\ UNCHANGED <<pickerOpen, pendingCameras, streams>>
    /\ UNCHANGED fishNetVars

\* confirmImage
ConfirmImage ==
    /\ capturedImage # "null"
    /\ ~pickerOpen
    /\ Render("null", isLoading, srcObject)
    /\ UNCHANGED <<pickerOpen, pendingCameras, pendingReaders, streams>>
    /\ UNCHANGED fishNetVars

\* retakePhoto: setCapturedImage(null), then startCamera up to its await
RetakePhoto ==
    /\ capturedImage # "null"
    /\ ~pickerOpen
    /\ Cardinality(Obtained) + pendingCameras < MaxStreams
    /\ pendingCameras' = pendingCameras + 1
    /\ Render("null", TRUE, srcObject)
    /\ UNCHANGED <<pickerOpen, pendingReaders, streams>>
    /\ UNCHANGED fishNetVars

FileChosen == \E isImage \in BOOLEAN : HandleFileSelect(isImage)

(***************************************************************************)
(* The hook                                                                *)
(***************************************************************************)
Init ==
    /\ mounted = TRUE
    /\ initPc = "start"
    /\ modelsRef = NoModels
    /\ isModelLoading = TRUE
    /\ modelError = "null"
    /\ fishCount = 0
    /\ pc = "idle"
    /\ spData = <<>>
    /\ dzData = <<>>
    /\ rnd = 0
    /\ threw = "none"
    /\ settled = "none"
    /\ result = Pending
    /\ InitCamera

callVars == <<fishCount, pc, spData, dzData, rnd, threw, settled, result>>

\* catch (err) of initSystems
InitCatch(message) ==
    /\ IF mounted
       THEN modelError' = message /\ isModelLoading' = FALSE
       ELSE UNCHANGED <<modelError, isModelLoading>>
    /\ initPc' = "done"
    /\ UNCHANGED <<mounted, modelsRef>>

\* the effect runs initSystems up to its first await
InitSystems(tfPresent, tflitePresent) ==
    /\ initPc = "start"
    /\ IF ~tfPresent
       THEN InitCatch("TensorFlow Core not available.")
       ELSE /\ initPc' = IF tflitePresent THEN "awaitModels" ELSE "awaitScript"
            /\ UNCHANGED <<mounted, modelsRef, isModelLoading, modelError>>
    /\ UNCHANGED callVars
    /\ UNCHANGED cameraVars

\* script.onload
ScriptLoaded ==
    /\ initPc = "awaitScript"
    /\ initPc' = "awaitModels"
    /\ UNCHANGED <<mounted, modelsRef, isModelLoading, modelError>>
    /\ UNCHANGED callVars
    /\ UNCHANGED cameraVars

\* script.onerror
ScriptFailed ==
    /\ initPc = "awaitScript"
    /\ InitCatch("Failed to load TFLite Script")
    /\ UNCHANGED callVars
    /\ UNCHANGED cameraVars

\* ModelsLoaded without the isMounted test
ModelsLoaded_IgnoreMounted ==
    /\ initPc = "awaitModels"
    /\ modelsRef' = [species |-> "model", disease |-> "model"]
    /\ isModelLoading' = FALSE
    /\ initPc' = "done"
    /\ UNCHANGED <<mounted, modelError>>
    /\ UNCHANGED callVars
    /\ UNCHANGED cameraVars

\* Promise.all of the two loads resolves
ModelsLoaded ==
    /\ initPc = "awaitModels"
    /\ IF mounted
       THEN /\ modelsRef' = [species |-> "model", disease |-> "model"]
            /\ isModelLoading' = FALSE
       ELSE UNCHANGED <<modelsRef, isModelLoading>>
    /\ initPc' = "done"
    /\ UNCHANGED <<mounted, modelError>>
    /\ UNCHANGED callVars
    /\ UNCHANGED cameraVars

\* one of the two loads rejects
ModelsFailed ==
    /\ initPc = "awaitModels"
    /\ InitCatch("load failed")
    /\ UNCHANGED callVars
    /\ UNCHANGED cameraVars

\* the cleanup of the effect
Unmount ==
    /\ mounted
    /\ initPc # "start"
    /\ mounted' = FALSE
    /\ UNCHANGED <<initPc, modelsRef, isModelLoading, modelError>>
    /\ UNCHANGED callVars
    /\ UNCHANGED cameraVars

\* analyzeFish(imageElement) up to its await; the image determines what the
\* two models and Math.random will yield, fail is the step that throws
AnalyzeFish(species, disease, random, fail) ==
    /\ pc # "awaitData"
    /\ IF modelsRef.species = "null" \/ modelsRef.disease = "null"
       THEN /\ pc' = "done"
            /\ settled' = "resolved"
            /\ result' = Null
            /\ threw' = "none"
            /\ UNCHANGED <<fishCount, spData, dzData, rnd>>
       ELSE /\ fishCount' = 1
            /\ spData' = species
            /\ dzData' = disease
            /\ rnd' = random
            /\ threw' = fail
            /\ IF fail \in Seg1Steps
               THEN /\ pc' = "done"
                    /\ settled' = Caught(fail).settled
                    /\ result' = Caught(fail).value
               ELSE /\ pc' = "awaitData"
                    /\ settled' = "pending"
                    /\ result' = Pending
    /\ UNCHANGED hookVars
    /\ UNCHANGED cameraVars

\* analyzeFish from the await to its return
AnalyzeFishResume(fail) ==
    /\ pc = "awaitData"
    /\ LET computed == PostProcess(spData, dzData, rnd)
           thrower == IF fail # "none" THEN fail
                      ELSE IF computed = Thrown THEN "postprocess"
                      ELSE "none"
       IN  /\ threw' = thrower
           /\ settled' = IF thrower = "none" THEN "resolved" ELSE Caught(thrower).settled
           /\ result' = IF thrower = "none" THEN computed ELSE Caught(thrower).value
    /\ pc' = "done"
    /\ UNCHANGED <<fishCount, spData, dzData, rnd>>
    /\ UNCHANGED hookVars
    /\ UNCHANGED cameraVars

Start == \E tfPresent \in BOOLEAN, tflitePresent \in BOOLEAN : InitSystems(tfPresent, tflitePresent)

Call ==
    \E species \in HookSpecies, disease \in HookDisease, random \in HookRandoms,
       fail \in Seg1Steps \cup {"none"} :
        AnalyzeFish(species, disease, random, fail)

Resume == \E fail \in Seg2Steps \cup {"none"} : AnalyzeFishResume(fail)

Next ==
    \/ Start
    \/ ScriptLoaded
    \/ ScriptFailed
    \/ ModelsLoaded
    \/ ModelsFailed
    \/ Unmount
    \/ Call
    \/ Resume

Spec == Init /\ [][Next]_vars

(***************************************************************************)
(* The post-processing on its own: a call suspended at its await, with     *)
(* the outputs of the two models drawn from PostInputs                     *)
(***************************************************************************)
InitPost ==
    /\ mounted = TRUE
    /\ initPc = "done"
    /\ modelsRef = [species |-> "model", disease |-> "model"]
    /\ isModelLoading = FALSE
    /\ modelError = "null"
    /\ fishCount = 1
    /\ pc = "awaitData"
    /\ \E input \in PostInputs :
          /\ spData = input[1]
          /\ dzData = input[2]
          /\ rnd = input[3]
    /\ threw = "none"
    /\ settled = "pending"
    /\ result = Pending
    /\ InitCamera

NextPost == AnalyzeFishResume("none")

SpecPost == InitPost /\ [][NextPost]_vars


(***************************************************************************)
(* The CameraCapture component on its own, next to an idle hook            *)
(***************************************************************************)
NextCamera ==
    \/ StartCamera
    \/ CameraGranted
    \/ CameraDenied
    \/ CapturePhoto
    \/ OpenPicker
    \/ FileChosen
    \/ ReaderLoaded
    \/ ConfirmImage
    \/ RetakePhoto

SpecCamera == Init /\ [][NextCamera]_vars

(***************************************************************************)
(* Properties                                                              *)
(***************************************************************************)
\* the call ran the post-processing to its return statement
Computed == pc = "done" /\ threw = "none" /\ settled = "resolved" /\ result # Null

\* the call reached the post-processing (no earlier step threw)
PostProcessed == pc = "done" /\ threw \in {"none", "postprocess"} /\ result # Null

AllLabels == {SPECIES_LABELS[i] : i \in DOMAIN SPECIES_LABELS}

\* the label behind the display name of a result
ChosenLabel(r) == CHOOSE l \in AllLabels : DisplayName(l) = r.species.name

IndexOfLabel(l) == CHOOSE i \in DOMAIN SPECIES_LABELS : SPECIES_LABELS[i] = l

\* v[i] is strictly greater than every other entry
Dominates(v, i) == \A j \in DOMAIN v \ {i} : v[i] > v[j]

\* the first position of the largest entry among the positions in idx:
\* the head of a stable descending sort
FirstMax(v, idx) ==
    CHOOSE i \in idx :
        /\ \A j \in idx : v[j] <= v[i]
        /\ \A j \in idx : v[j] = v[i] => i <= j

Background == IndexOfLabel("wild_fish_background")

SeaBass == IndexOfLabel("sea_bass")

Catla == IndexOfLabel("catla")

Rohu == IndexOfLabel("rohu")

\* the entry that is the candidate after the background rule
CandidateIndex(v) ==
    LET top == FirstMax(v, 1..18)
        second == FirstMax(v, (1..18) \ {top})
    IN  IF top = Background /\ v[second] > 500 THEN second ELSE top

\* C1 as stated: every species vector whose length is not 18 and every
\* disease vector whose length is not 3 makes the post-processing return
\* exactly the fallback record.
C1_MalformedGivesFallback ==
    (PostProcessed /\ (Len(spData) # 18 \/ Len(dzData) # 3)) => result = FALLBACK_RESULT

\* C1 as amended: an empty species vector makes the post-processing throw and
\* the call return exactly the fallback record; any other input, also a
\* species vector of a length other than 18 or a disease vector of a length
\* other than 3, does not throw and yields a computed result, not the fallback.
C1_EmptySpeciesGivesFallback ==
    PostProcessed =>
        /\ Len(spData) = 0 => (threw = "postprocess" /\ result = FALLBACK_RESULT)
        /\ Len(spData) # 0 => (threw = "none" /\ result # FALLBACK_RESULT)

C1_Witness ==
    /\ pc = "done"
    /\ Len(spData) = 0
    /\ threw = "postprocess"
    /\ result = FALLBACK_RESULT

\* C2: once both models are loaded, a call to analyzeFish settles by
\* resolving to a result record (the computed one or the fallback), whichever
\* step throws; its promise is never rejected.
C2_NeverRejects ==
    /\ settled # "rejected"
    /\ (pc = "done" /\ result # Null) =>
          /\ settled = "resolved"
          /\ modelsRef = [species |-> "model", disease |-> "model"]
          /\ IF threw = "none"
             THEN DOMAIN result = DOMAIN FALLBACK_RESULT /\ result # FALLBACK_RESULT
             ELSE result = FALLBACK_RESULT

C2_Witness ==
    /\ pc = "done"
    /\ threw = "data"
    /\ settled = "resolved"
    /\ result = FALLBACK_RESULT

\* C3: for an 18-element species vector in which one index strictly
\* dominates, and that index is neither wild_fish_background nor sea_bass
\* below 0.5, the chosen label is the label of that index.
C3_DominantIsChosen ==
    (Computed /\ Len(spData) = 18) =>
        \A i \in 1..18 :
            (/\ Dominates(spData, i)
             /\ i # Background
             /\ ~(i = SeaBass /\ spData[i] < 5000))
            => ChosenLabel(result) = SPECIES_LABELS[i]

C3_Witness ==
    /\ Computed
    /\ Len(spData) = 18
    /\ Dominates(spData, SeaBass)
    /\ spData[SeaBass] = 5000
    /\ spData[Catla] = 600
    /\ result.species.name = "sea_bass"

\* C4: the chosen label is wild_fish_background exactly when background is
\* the top of the stable descending sort and every other score is <= 0.05;
\* a background top with a second entry above 0.05 is replaced by that
\* second entry.
C4_BackgroundSuppression ==
    (Computed /\ Len(spData) = 18) =>
        LET backgroundTop == FirstMax(spData, 1..18) = Background
            second == FirstMax(spData, 1..17)
            othersLow == \A j \in 1..17 : spData[j] <= 500
        IN  /\ (ChosenLabel(result) = "wild_fish_background") <=> (backgroundTop /\ othersLow)
            /\ (/\ backgroundTop
                /\ spData[second] > 500
                /\ ~(second = SeaBass /\ spData[second] < 5000))
               => ChosenLabel(result) = SPECIES_LABELS[second]

C4_Witness ==
    /\ Computed
    /\ Len(spData) = 18
    /\ spData[Background] = 9000
    /\ spData[Rohu] = 600
    /\ \A j \in 1..17 : spData[j] <= 600
    /\ result.species.name = "Rohu (Rui)"

\* C5: when the candidate after the background rule is sea_bass below 0.5,
\* the chosen label is the higher-scoring of catla and rohu (catla on a tie)
\* if that score is > 0.05 and sea_bass otherwise; for any other candidate
\* the chosen label is the candidate's.
C5_SeaBassGuard ==
    (Computed /\ Len(spData) = 18) =>
        LET candidate == CandidateIndex(spData)
            carp == IF spData[Catla] >= spData[Rohu] THEN Catla ELSE Rohu
        IN  IF candidate = SeaBass /\ spData[SeaBass] < 5000
            THEN ChosenLabel(result) =
                    IF spData[carp] > 500 THEN SPECIES_LABELS[carp] ELSE "sea_bass"
            ELSE ChosenLabel(result) = SPECIES_LABELS[candidate]

C5_Witness ==
    /\ Computed
    /\ Len(spData) = 18
    /\ FirstMax(spData, 1..18) = Background
    /\ CandidateIndex(spData) = SeaBass
    /\ spData[SeaBass] = 4000
    /\ spData[Catla] = 3000
    /\ spData[Rohu] = 3000
    /\ result.species.name = "Catla (Indian Carp)"

\* C6: species.confidence is 100 * d for the score s of the chosen entry,
\* where d = 0.82 + 0.1 * s if s < 0.8, d = 0.93 if s > 0.95 and d = s
\* otherwise; 0.5 gives 87.0, 0.99 gives 93.0, 0.85 gives 85.0 and the
\* boundaries 0.8 and 0.95 pass through.
C6_Recalibration ==
    (Computed /\ Len(spData) = 18) =>
        LET s == spData[IndexOfLabel(ChosenLabel(result))]
            d == IF s < 8000 THEN 8200 + s \div 10
                 ELSE IF s > 9500 THEN 9300
                 ELSE s
        IN  /\ result.species.confidence = 100 * d
            /\ s = 5000 => result.species.confidence = 870000
            /\ s = 9900 => result.species.confidence = 930000
            /\ s = 8500 => result.species.confidence = 850000
            /\ s = 8000 => result.species.confidence = 800000
            /\ s = 9500 => result.species.confidence = 950000

C6_Witness ==
    /\ Computed
    /\ Len(spData) = 18
    /\ spData[Background] = 9000
    /\ spData[Rohu] = 600
    /\ result.species.name = "Rohu (Rui)"
    /\ result.species.confidence = 826000

\* C7: if the top of the stable descending sort of the three disease scores
\* is black gill or white spot with a score >= 0.65, then hasDisease is true,
\* the name is "<label> Risk" and the confidence is 100 * that score.
C7_HardTrigger ==
    (Computed /\ Len(dzData) = 3) =>
        LET top == FirstMax(dzData, 1..3)
        IN  (top # 2 /\ dzData[top] >= 6500) =>
                /\ result.disease.hasDisease
                /\ result.disease.name = IF top = 1 THEN "Black Gill Risk" ELSE "White Spot Risk"
                /\ result.disease.confidence = 100 * dzData[top]

C7_Witness ==
    /\ Computed
    /\ dzData = <<1000, 2000, 7000>>
    /\ result.disease.hasDisease
    /\ result.disease.name = "White Spot Risk"
    /\ result.disease.confidence = 700000

\* C8: when the hard trigger does not fire and a disease class has a score
\* >= 0.55, hasDisease is true, the name is "<label> (Borderline)" for the
\* highest-scoring disease class and the confidence is 100 * its score, also
\* when healthy is the top-scoring class.
C8_SoftTrigger ==
    (Computed /\ Len(dzData) = 3) =>
        LET top == FirstMax(dzData, 1..3)
            hard == top # 2 /\ dzData[top] >= 6500
        IN  (~hard /\ (dzData[1] >= 5500 \/ dzData[3] >= 5500)) =>
                /\ result.disease.hasDisease
                /\ \E k \in {1, 3} :
                      /\ dzData[k] >= 5500
                      /\ dzData[k] >= dzData[1]
                      /\ dzData[k] >= dzData[3]
                      /\ result.disease.name =
                            IF k = 1 THEN "Black Gill (Borderline)" ELSE "White Spot (Borderline)"
                      /\ result.disease.confidence = 100 * dzData[k]

C8_Witness ==
    /\ Computed
    /\ dzData = <<0, 6000, 5800>>
    /\ result.disease.hasDisease
    /\ result.disease.name = "White Spot (Borderline)"
    /\ result.disease.confidence = 580000

\* C9: in a computed result hasDisease is false exactly when both disease
\* class scores are below 0.55 (a missing score counts as 0); then the name
\* is "Healthy" and the confidence is 100 * the healthy class's score, also
\* when healthy is not the top-scoring class.
C9_HealthyPath ==
    Computed =>
        LET score(k) == IF k \in DOMAIN dzData THEN dzData[k] ELSE 0
        IN  /\ (~result.disease.hasDisease) <=> (score(1) < 5500 /\ score(3) < 5500)
            /\ (~result.disease.hasDisease) =>
                  /\ result.disease.name = "Healthy"
                  /\ result.disease.confidence = 100 * score(2)

C9_Witness ==
    /\ Computed
    /\ dzData = <<5400, 1000, 2000>>
    /\ ~result.disease.hasDisease
    /\ result.disease.name = "Healthy"
    /\ result.disease.confidence = 100000

\* C10: whenever hasDisease is true, freshness.score is
\* 0.45 - (clamp(diseaseConf, 0.55, 1.0) - 0.55) * 0.6, a function of
\* diseaseConf alone that is 0.45 at 0.55, 0.18 at 1.0 and never outside
\* [0.18, 0.45], and freshness.label is "Stale".
C10_DiseasedFreshness ==
    (Computed /\ result.disease.hasDisease) =>
        LET diseaseConf == result.disease.confidence \div 100
            clamped == IF diseaseConf < 5500 THEN 5500
                       ELSE IF diseaseConf > 10000 THEN 10000
                       ELSE diseaseConf
        IN  /\ result.freshness.score = 4500 - ((clamped - 5500) * 6) \div 10
            /\ diseaseConf = 5500 => result.freshness.score = 4500
            /\ diseaseConf = 10000 => result.freshness.score = 1800
            /\ result.freshness.score >= 1800
            /\ result.freshness.score <= 4500
            /\ result.freshness.label = "Stale"

C10_Witness ==
    /\ Computed
    /\ result.disease.hasDisease
    /\ result.disease.confidence = 1100000
    /\ rnd = 9999
    /\ result.freshness.score = 1800
    /\ result.freshness.label = "Stale"

BothModels == [species |-> "model", disease |-> "model"]

\* a call ran past the null test: it is at its await, or it returned a
\* record, or it has set fishCount
PastNullTest == pc = "awaitData" \/ (pc = "done" /\ result # Null) \/ fishCount # 0

\* the models are installed together or not at all, and only a call made
\* with both installed runs past the null test
C12_GatingState ==
    /\ modelsRef \in {NoModels, BothModels}
    /\ (initPc # "done" \/ modelError # "null") => modelsRef = NoModels
    /\ PastNullTest => (modelsRef = BothModels /\ initPc = "done" /\ modelError = "null")

\* the models are installed only by the completion of the load while the
\* hook is mounted, and a call made without them resolves to null, reaches
\* no inference and leaves fishCount unchanged
C12_GatingStep ==
    /\ modelsRef' # modelsRef =>
          (initPc = "awaitModels" /\ mounted /\ modelsRef' = BothModels)
    /\ (modelsRef = NoModels /\ callVars' # callVars) =>
          /\ pc' = "done"
          /\ settled' = "resolved"
          /\ result' = Null
          /\ threw' = "none"
          /\ fishCount' = fishCount

\* C12: analyzeFish reaches predict only after both models finished loading
\* while the hook was mounted (they are installed together); in every other
\* state (still loading, a load or script failure, unmount before the load
\* finished) it returns null, runs no inference and leaves fishCount
\* unchanged, for every interleaving of load completion, unmount and calls.
C12_ModelGating == []C12_GatingState /\ [][C12_GatingStep]_vars

C12_Witness ==
    /\ ~mounted
    /\ initPc = "done"
    /\ modelError = "null"
    /\ modelsRef = NoModels
    /\ pc = "done"
    /\ settled = "resolved"
    /\ result = Null
    /\ fishCount = 0

\* C13: whenever the component is in preview mode (capturedImage is not
\* null), every camera stream obtained by startCamera has had all its tracks
\* stopped.
C13_PreviewStopsCamera ==
    capturedImage # "null" => \A id \in 1..MaxStreams : streams[id] # "live"
====
